---- MODULE Spec2Model ----
(***************************************************************************)
(* tg-notify: notification relay with critical-alert escalation            *)
(* (src/server.py) and the command queue polled by CommandListener         *)
(* (src/command_listener.py).                                              *)
(*                                                                         *)
(* Threads of the server process (src/server.py:453-462):                  *)
(*   - the uvicorn event loop: notify, delayed_call_check, get_commands    *)
(*   - the Telegram polling thread with its own event loop:                *)
(*     handle_callback, handle_tg_command                                  *)
(*   - the cleanup thread: cleanup_old_commands                            *)
(* pending_alerts is shared by the first two without any lock;             *)
(* commands_store / command_id_counter are guarded by commands_lock.       *)
(* A coroutine can be overtaken at every await; code between two awaits    *)
(* is one step of the model.                                               *)
(***************************************************************************)
EXTENDS Integers, Sequences, FiniteSets, TLC

\* ---------------------------------------------------------------- bounds
NumReq == 2          \* /notify requests in a run
MaxAcks == 2         \* button callbacks in a run
TicksPerSec == 2     \* clock ticks that make one second
MaxCmds == 3         \* chat commands stored in a run
MaxPolls == 2        \* polls of the CommandListener in a run
NumHandlers == 1     \* chat updates handled at a time
MaxLoops == 3        \* polling threads a CommandListener spawns in a run

\* retention of cleanup_old_commands: 3600 s in the source, one second here
RetentionSeconds == 1

\* the clock runs long enough for a command to age out of the retention
MaxClock == (RetentionSeconds + 1) * TicksPerSec

\* int(time.time())
Seconds(clk) == clk \div TicksPerSec

Reqs == 1..NumReq
Priorities == {"normal", "critical"}

\* ------------------------------------------------------------- variables
VARIABLES
    clock,           \* time.time(), in ticks
    pending_alerts,  \* alert_id -> [message, confirmed]
    npc,             \* notify request r: position in notify()
    n_prio,          \* req.priority of request r
    n_id,            \* alert_id computed by request r
    tpc,             \* delayed_call_check task started by request r
    t_due,           \* clock reading at which the sleep of task r ends
    apc,             \* handle_callback: position
    a_id,            \* handle_callback: alert_id of the callback
    a_owner,         \* message of the entry found by the callback (0: none)
    a_late,          \* the callback arrived while a timer was escalating a_id
    ack_log,         \* outcomes of the callbacks handled so far
    acked,           \* alerts whose entry a callback confirmed and removed
    calls,           \* make_phone_call invocations of the timer tasks
    chat             \* messages sent by handle_callback / delayed_call_check

VARIABLES
    API_KEY,         \* os.getenv("NOTIFY_API_KEY"): "unloaded" before the
                     \* module is loaded, "none" when the variable is unset
    n_key,           \* X-API-Key header of notify request r
    d_key,           \* X-API-Key header of the last /call request
    d_placed,        \* what make_phone_call did for it: "none", "placed",
                     \* "failed"
    d_status,        \* its response: "none" (no request yet), "401", "ok",
                     \* "500"
    posted           \* notify requests whose message reached the chat

VARIABLES
    commands_store,      \* target -> list of commands
    command_id_counter,
    commands_lock,       \* <<"free">> or the holder
    hpc,                 \* handle_tg_command h: position
    h_cmd,               \* handle_tg_command h: target, action, args, id
    issued,              \* ids in the order they were assigned
    gpc,                 \* get_commands: position
    g_caller,            \* "http" (any client) or "listener"
    g_target,            \* query parameter target
    g_after,             \* query parameter after
    g_result,            \* result list
    g_seen,              \* the store as it was when the result was built
    cpc,                 \* cleanup_old_commands: position
    c_now,               \* int(time.time()) read by the pass
    c_evicted,           \* commands removed by the pass just made
    c_kept,              \* commands that went through the pass just made
    c_todo,              \* targets the pass has still to go through
    l_target,            \* CommandListener.target
    last_id,             \* CommandListener.last_id
    lpc,                 \* CommandListener.poll: position
    l_polls,             \* polls started
    delivered,           \* ids handed to the dispatch loop, in order
    l_failed,            \* dispatches that found no handler or whose handler
                         \* raised
    l_ret,               \* what the last poll() returned (-1: no poll yet)
    l_running,           \* CommandListener._running
    loop                 \* position of each thread spawned by start()

storeVars == <<commands_store, command_id_counter, commands_lock>>
tgVars == <<hpc, h_cmd, issued>>
getVars == <<gpc, g_caller, g_target, g_after, g_result, g_seen>>
cleanVars == <<cpc, c_now, c_evicted, c_kept, c_todo>>
lisVars == <<l_target, last_id, lpc, l_polls, delivered, l_failed, l_ret>>
loopVars == <<l_running, loop>>
cmdVars == <<storeVars, tgVars, getVars, cleanVars, lisVars, loopVars>>

keyVars == <<API_KEY, n_key>>
callVars == <<d_key, d_placed, d_status>>

alertVars == <<pending_alerts, npc, n_prio, n_id, tpc, t_due,
               apc, a_id, a_owner, a_late, ack_log, acked, calls, chat,
               keyVars, callVars, posted>>

\* ------------------------------------------------------ registry helpers
\* pending_alerts[alert_id] = {...}
Put(d, k, v) == [i \in (DOMAIN d) \cup {k} |-> IF i = k THEN v ELSE d[i]]

\* pending_alerts.pop(alert_id, None)
Pop(d, k) == [i \in (DOMAIN d) \ {k} |-> d[i]]

\* alert_id = f"{int(time.time() * 1000)}": the clock reading itself,
\* one tick being the resolution of the id
AlertId(clk) == clk

\* f"{req.title}: {req.message}": requests carry distinct texts, named by r
AlertMessage(r) == r

\* alert = pending_alerts.get(alert_id); alert and not alert.get("confirmed")
NeedsCall(alerts, id) == id \in DOMAIN alerts /\ ~alerts[id].confirmed

\* asyncio.sleep(CALL_DELAY_SECONDS), default 300 s; one second here
CALL_DELAY_SECONDS == 1
SleepEnd(clk) == clk + CALL_DELAY_SECONDS * TicksPerSec

\* ------------------------------------------------------------------ Init
AlertInit ==
    /\ clock = 0
    /\ pending_alerts = <<>>
    /\ npc = [r \in Reqs |-> "idle"]
    /\ n_prio = [r \in Reqs |-> "normal"]
    /\ n_id = [r \in Reqs |-> 0]
    /\ tpc = [r \in Reqs |-> "none"]
    /\ t_due = [r \in Reqs |-> 0]
    /\ apc = "idle"
    /\ a_id = 0
    /\ a_owner = 0
    /\ a_late = FALSE
    /\ ack_log = <<>>
    /\ acked = {}
    /\ calls = {}
    /\ chat = {}
    /\ API_KEY = "unloaded"
    /\ n_key = [r \in Reqs |-> "none"]
    /\ d_key = "none"
    /\ d_placed = "none"
    /\ d_status = "none"
    /\ posted = {}

\* ----------------------------------------------------------------- clock
Tick ==
    /\ clock < MaxClock
    /\ clock' = clock + 1
    /\ UNCHANGED <<pending_alerts, npc, n_prio, n_id, tpc, t_due,
                   apc, a_id, a_owner, a_late, ack_log, acked, calls, chat>>
    /\ UNCHANGED <<keyVars, callVars, posted, cmdVars>>

\* ------------------------------------------------------------ environment
\* values of the X-API-Key header: the operator's key, another key, and
\* "none" for a request without the header (Header(None))
Keys == {"secret", "wrong", "none"}

\* lines 23-29: load_dotenv and os.getenv when the module is loaded; the
\* key is set in the environment or it is not
LoadEnv(key) ==
    /\ API_KEY = "unloaded"
    /\ API_KEY' = key
    /\ UNCHANGED <<clock, pending_alerts, npc, n_prio, n_id, tpc, t_due,
                   apc, a_id, a_owner, a_late, ack_log, acked, calls, chat>>
    /\ UNCHANGED <<n_key, callVars, posted, cmdVars>>

\* if x_api_key != API_KEY: raise HTTPException(401)
Authorized(key, api_key) == key = api_key

\* ------------------------------------------------------------ POST /notify
\* a test of the priority that takes every request for critical
AnyPriority(prio) == TRUE

\* if req.priority == "critical"
IsCritical(prio) == prio = "critical"

\* lines 189-201: key check, alert_id, format_message, up to the await of
\* bot.send_message
NotifyBegin(r, key, prio) ==
    /\ API_KEY # "unloaded"
    /\ npc[r] = "idle"
    /\ \A q \in Reqs : q < r => npc[q] # "idle"   \* requests are numbered
                                                  \* in order of arrival
    /\ n_key' = [n_key EXCEPT ![r] = key]
    /\ IF ~Authorized(key, API_KEY)
         THEN /\ npc' = [npc EXCEPT ![r] = "401"]
              /\ UNCHANGED <<n_prio, n_id>>
         ELSE /\ npc' = [npc EXCEPT ![r] = "send"]
              /\ n_prio' = [n_prio EXCEPT ![r] = prio]
              /\ n_id' = [n_id EXCEPT ![r] = AlertId(clock)]
    /\ UNCHANGED <<clock, pending_alerts, tpc, t_due,
                   apc, a_id, a_owner, a_late, ack_log, acked, calls, chat>>
    /\ UNCHANGED <<API_KEY, callVars, posted, cmdVars>>

\* a handler that goes on after a failed send as after a sent message
SwallowFailure(ok, critical) == IF critical THEN "sent" ELSE "ok"

\* where notify is after bot.send_message: in the except clause (500), past
\* the send of the critical branch, or returning from the other branch
SendOutcome(ok, critical) ==
    IF ~ok THEN "500" ELSE IF critical THEN "sent" ELSE "ok"

\* bot.send_message: the message (with its button, when critical) reaches
\* the chat, or the call raises and notify answers 500 (lines 230-232)
NotifySend(r, ok) ==
    /\ npc[r] = "send"
    /\ npc' = [npc EXCEPT ![r] = SendOutcome(ok, IsCritical(n_prio[r]))]
    /\ posted' = IF ok THEN posted \cup {r} ELSE posted
    /\ UNCHANGED <<clock, pending_alerts, n_prio, n_id, tpc, t_due,
                   apc, a_id, a_owner, a_late, ack_log, acked, calls, chat>>
    /\ UNCHANGED <<keyVars, callVars, cmdVars>>

\* lines 209-219: the coroutine resumes, records the alert and starts the
\* delayed check
NotifyRegister(r) ==
    /\ npc[r] = "sent"
    /\ pending_alerts' = Put(pending_alerts, n_id[r],
                             [message |-> AlertMessage(r), confirmed |-> FALSE])
    /\ tpc' = [tpc EXCEPT ![r] = "sleep"]
    /\ t_due' = [t_due EXCEPT ![r] = SleepEnd(clock)]
    /\ npc' = [npc EXCEPT ![r] = "ok+id"]     \* the response of line 219
    /\ UNCHANGED <<clock, n_prio, n_id,
                   apc, a_id, a_owner, a_late, ack_log, acked, calls, chat>>
    /\ UNCHANGED <<keyVars, callVars, posted, cmdVars>>

\* the registry holds the entry recorded for request r
HasEntry(r) ==
    /\ n_id[r] \in DOMAIN pending_alerts
    /\ pending_alerts[n_id[r]].message = AlertMessage(r)

\* ------------------------------------------------------ delayed_call_check
\* requests whose timer task is past its check and has not yet popped
Escalating(id) == {r \in Reqs : tpc[r] = "warn" /\ n_id[r] = id}

\* lines 141-149: the sleep is over, the entry is looked up; either the task
\* ends or it goes on to the await of the "about to call" message
TimerCheck(r) ==
    /\ tpc[r] = "sleep"
    /\ clock >= t_due[r]
    /\ tpc' = [tpc EXCEPT ![r] =
                 IF NeedsCall(pending_alerts, n_id[r]) THEN "warn" ELSE "done"]
    /\ UNCHANGED <<clock, pending_alerts, npc, n_prio, n_id, t_due,
                   apc, a_id, a_owner, a_late, ack_log, acked, calls, chat>>
    /\ UNCHANGED <<keyVars, callVars, posted, cmdVars>>

\* a registry that keeps the alert when the call could not be placed
KeepOnFailure(alerts, id, placed) == IF placed THEN Pop(alerts, id) ELSE alerts

\* lines 158-161: the result of make_phone_call is not looked at, the pop
\* follows in either case
AfterCall(alerts, id, placed) == Pop(alerts, id)

\* lines 149-161: the message is sent or its failure swallowed, then
\* make_phone_call(message) with the task's own argument, then the pop
TimerEscalate(r, sent, placed) ==
    /\ tpc[r] = "warn"
    /\ chat' = IF sent THEN chat \cup {[kind |-> "calling", id |-> n_id[r]]}
               ELSE chat
    /\ calls' = calls \cup {[task |-> r, id |-> n_id[r],
                             message |-> AlertMessage(r), placed |-> placed]}
    /\ pending_alerts' = AfterCall(pending_alerts, n_id[r], placed)
    /\ tpc' = [tpc EXCEPT ![r] = "done"]
    /\ UNCHANGED <<clock, npc, n_prio, n_id, t_due,
                   apc, a_id, a_owner, a_late, ack_log, acked>>
    /\ UNCHANGED <<keyVars, callVars, posted, cmdVars>>

\* -------------------------------------------------------------- POST /call
\* a response that reports success whatever make_phone_call returned
AlwaysOk(success) == "ok"

\* lines 242-245
CallStatus(success) == IF success THEN "ok" ELSE "500"

\* lines 238-245: key check, make_phone_call (which blocks, there is no
\* await) and the response
DirectCall(key, success) ==
    /\ API_KEY # "unloaded"
    /\ d_key' = key
    /\ IF ~Authorized(key, API_KEY)
         THEN /\ d_status' = "401"
              /\ d_placed' = "none"
         ELSE /\ d_placed' = IF success THEN "placed" ELSE "failed"
              /\ d_status' = CallStatus(success)
    /\ UNCHANGED <<clock, pending_alerts, npc, n_prio, n_id, tpc, t_due,
                   apc, a_id, a_owner, a_late, ack_log, acked, calls, chat>>
    /\ UNCHANGED <<keyVars, posted, cmdVars>>

\* --------------------------------------------------------- handle_callback
\* ids of the acknowledgment buttons that reached the chat
ButtonIds == {n_id[r] : r \in {q \in Reqs : n_prio[q] = "critical"
                                           /\ npc[q] \in {"sent", "ok+id"}}}

\* the operator presses a button: the update is handed to handle_callback,
\* which awaits query.answer() (line 167). Updates are processed one at a
\* time (Application built without concurrent updates, lines 412-416)
AckBegin(id) ==
    /\ apc = "idle"
    /\ Len(ack_log) < MaxAcks
    /\ id \in ButtonIds
    /\ apc' = "answer"
    /\ a_id' = id
    /\ a_owner' = 0
    /\ a_late' = (Escalating(id) # {}
                  \/ \E c \in calls : c.id = id)
    /\ UNCHANGED <<clock, pending_alerts, npc, n_prio, n_id, tpc, t_due,
                   ack_log, acked, calls, chat>>
    /\ UNCHANGED <<keyVars, callVars, posted, cmdVars>>

Logged(outcome) ==
    Append(ack_log, [id |-> a_id, outcome |-> outcome])

\* query.answer() raised: the handler ends with the exception
AckAnswerFail ==
    /\ apc = "answer"
    /\ apc' = "idle"
    /\ ack_log' = Logged("answer_failed")
    /\ UNCHANGED <<clock, pending_alerts, npc, n_prio, n_id, tpc, t_due,
                   acked, calls, chat>>
    /\ a_id' = 0 /\ a_owner' = 0 /\ a_late' = FALSE
    /\ UNCHANGED <<keyVars, callVars, posted, cmdVars>>

\* the entry the acknowledgment branch is taken for
Known(alerts, id) == id \in DOMAIN alerts

\* lines 169-177 / 183: query.answer() returned; membership test, then
\* either confirmed = True and the await of edit_message_reply_markup, or
\* the await of the "expired" reply
AckCheck ==
    /\ apc = "answer"
    /\ IF Known(pending_alerts, a_id)
         THEN /\ pending_alerts' =
                   [pending_alerts EXCEPT ![a_id].confirmed = TRUE]
              /\ a_owner' = pending_alerts[a_id].message
              /\ apc' = "edit"
         ELSE /\ apc' = "expired"
              /\ UNCHANGED <<pending_alerts, a_owner>>
    /\ UNCHANGED <<clock, npc, n_prio, n_id, tpc, t_due,
                   a_id, a_late, ack_log, acked, calls, chat>>
    /\ UNCHANGED <<keyVars, callVars, posted, cmdVars>>

\* line 177: edit_message_reply_markup returns, or raises and ends the
\* handler with the entry still in the registry
AckEdit(ok) ==
    /\ apc = "edit"
    /\ IF ok
         THEN /\ apc' = "reply"
              /\ UNCHANGED <<ack_log, a_id, a_owner, a_late>>
         ELSE /\ apc' = "idle"
              /\ ack_log' = Logged("confirm_failed")
              /\ a_id' = 0 /\ a_owner' = 0 /\ a_late' = FALSE
    /\ UNCHANGED <<clock, pending_alerts, npc, n_prio, n_id, tpc, t_due,
                   acked, calls, chat>>
    /\ UNCHANGED <<keyVars, callVars, posted, cmdVars>>

\* lines 178-181: the confirmation reply is sent and the entry popped, or
\* reply_text raises and ends the handler before the pop
AckReply(ok) ==
    /\ apc = "reply"
    /\ apc' = "idle"
    /\ IF ok
         THEN /\ chat' = chat \cup {[kind |-> "confirmed", id |-> a_id]}
              /\ pending_alerts' = Pop(pending_alerts, a_id)
              /\ acked' = acked \cup {a_owner}
              /\ ack_log' = Logged("confirmed")
         ELSE /\ ack_log' = Logged("confirm_failed")
              /\ UNCHANGED <<chat, pending_alerts, acked>>
    /\ UNCHANGED <<clock, npc, n_prio, n_id, tpc, t_due,
                   calls>>
    /\ a_id' = 0 /\ a_owner' = 0 /\ a_late' = FALSE
    /\ UNCHANGED <<keyVars, callVars, posted, cmdVars>>

\* line 183: the "already handled or expired" reply
AckExpired(ok) ==
    /\ apc = "expired"
    /\ apc' = "idle"
    /\ chat' = IF ok THEN chat \cup {[kind |-> "expired", id |-> a_id]}
               ELSE chat
    /\ ack_log' = Logged("unknown")
    /\ UNCHANGED <<clock, pending_alerts, npc, n_prio, n_id, tpc, t_due,
                   acked, calls>>
    /\ a_id' = 0 /\ a_owner' = 0 /\ a_late' = FALSE
    /\ UNCHANGED <<keyVars, callVars, posted, cmdVars>>


\* ======================================================== command system
Handlers == 1..NumHandlers
Loops == 1..MaxLoops
Targets == {"gold", "eth", "all"}

\* update.message.text.split(), the leading "/" of the first part left out:
\* "/gold stop now", "/all ping", "/eth stop", "/gold", "/", "/ stop"
Texts == { <<"gold", "stop", "now">>, <<"all", "ping">>, <<"eth", "stop">>,
           <<"gold">>, <<"">>, <<"", "stop">> }

\* target = parts[0][1:]
ParseTarget(parts) == parts[1]
\* action = parts[1] if len(parts) > 1 else ""
ParseAction(parts) == IF Len(parts) > 1 THEN parts[2] ELSE ""
\* args = parts[2:] if len(parts) > 2 else []
ParseArgs(parts) == IF Len(parts) > 2 THEN SubSeq(parts, 3, Len(parts)) ELSE <<>>

\* a test of the action alone
MissingAction(target, action) == action = ""

\* a test of the target alone
MissingTarget(target, action) == target = ""

\* if not target or not action
Malformed(target, action) == target = "" \/ action = ""

\* a counter that is read but not advanced
SameId(n) == n

\* a counter that runs downwards
Countdown(n) == n - 1

\* command_id_counter += 1
NextId(n) == n + 1

\* commands_store.get(t, [])
StoreGet(store, t) == IF t \in DOMAIN store THEN store[t] ELSE <<>>

\* commands_store[target].append(cmd) on the defaultdict
StoreAppend(store, t, cmd) ==
    [u \in (DOMAIN store) \cup {t} |->
        IF u = t THEN Append(StoreGet(store, t), cmd) ELSE store[u]]

\* every command held by the store
AllCmds(store) == UNION {{store[t][i] : i \in 1..Len(store[t])} : t \in DOMAIN store}

CmdInit ==
    /\ commands_store = <<>>
    /\ command_id_counter = 0
    /\ commands_lock = <<"free">>
    /\ hpc = [h \in Handlers |-> "idle"]
    /\ h_cmd = [h \in Handlers |-> <<>>]
    /\ issued = <<>>
    /\ gpc = "idle"
    /\ g_caller = "http"
    /\ g_target = "all"
    /\ g_after = 0
    /\ g_result = <<>>
    /\ g_seen = <<>>
    /\ cpc = "sleep"
    /\ c_now = 0
    /\ c_evicted = {}
    /\ c_kept = {}
    /\ c_todo = {}
    /\ l_target = ""
    /\ last_id = 0
    /\ lpc = "none"
    /\ l_polls = 0
    /\ delivered = <<>>
    /\ l_failed = {}
    /\ l_ret = -1
    /\ l_running = FALSE
    /\ loop = [k \in Loops |-> "none"]

\* ------------------------------------------------------- handle_tg_command
\* lines 282-297: split, validate, then either the usage reply or the wait
\* for commands_lock
TgReceive(h, parts) ==
    /\ hpc[h] = "idle"
    /\ \A k \in Handlers : k < h => hpc[k] # "idle"   \* the first free slot
    /\ Len(issued) + Cardinality({k \in Handlers : hpc[k] = "lock"})
          < MaxCmds
    /\ LET target == ParseTarget(parts)
           action == ParseAction(parts)
       IN /\ hpc' = [hpc EXCEPT ![h] =
                 IF Malformed(target, action) THEN "usage" ELSE "lock"]
          /\ h_cmd' = [h_cmd EXCEPT ![h] =
                 [target |-> target, action |-> action,
                  args |-> ParseArgs(parts)]]
    /\ UNCHANGED <<storeVars, issued, getVars, cleanVars, lisVars>>
    /\ UNCHANGED <<clock, alertVars, loopVars>>

\* line 293: the usage reply, sent or not
TgUsage(h) ==
    /\ hpc[h] = "usage"
    /\ hpc' = [hpc EXCEPT ![h] = "idle"]
    /\ h_cmd' = [h_cmd EXCEPT ![h] = <<>>]
    /\ UNCHANGED <<storeVars, issued, getVars, cleanVars, lisVars>>
    /\ UNCHANGED <<clock, alertVars, loopVars>>

\* a lock that is never waited for
NoWait(lock) == TRUE

\* threading.Lock.acquire
CanAcquire(lock) == lock = <<"free">>

\* a lock left as it was on leaving the block
KeptHeld(lock) == lock

\* threading.Lock.release, on leaving a with block
Released(lock) == <<"free">>

\* lines 297-305: commands_lock is taken, the counter advanced and the
\* command built
TgAlloc(h) ==
    /\ hpc[h] = "lock"
    /\ CanAcquire(commands_lock)
    /\ commands_lock' = <<"tg", h>>
    /\ command_id_counter' = NextId(command_id_counter)
    /\ h_cmd' = [h_cmd EXCEPT ![h] =
          [id |-> command_id_counter', target |-> h_cmd[h].target,
           action |-> h_cmd[h].action, args |-> h_cmd[h].args,
           ts |-> Seconds(clock)]]
    /\ issued' = Append(issued, command_id_counter')
    /\ hpc' = [hpc EXCEPT ![h] = "insert"]
    /\ UNCHANGED <<commands_store, getVars, cleanVars, lisVars>>
    /\ UNCHANGED <<clock, alertVars, loopVars>>

\* lines 306-307: the append, and the lock released on leaving the block
TgInsert(h) ==
    /\ hpc[h] = "insert"
    /\ commands_store' = StoreAppend(commands_store, h_cmd[h].target, h_cmd[h])
    /\ commands_lock' = Released(commands_lock)
    /\ hpc' = [hpc EXCEPT ![h] = "reply"]
    /\ h_cmd' = [h_cmd EXCEPT ![h] = <<>>]
    /\ UNCHANGED <<command_id_counter, issued, getVars, cleanVars, lisVars>>
    /\ UNCHANGED <<clock, alertVars, loopVars>>

\* lines 310-311: the confirmation reply, sent or not
TgReply(h) ==
    /\ hpc[h] = "reply"
    /\ hpc' = [hpc EXCEPT ![h] = "idle"]
    /\ UNCHANGED <<storeVars, h_cmd, issued, getVars, cleanVars, lisVars>>
    /\ UNCHANGED <<clock, alertVars, loopVars>>

\* ------------------------------------------------------------ GET /commands
\* a cursor test that lets the command at the cursor through
NewerOrSame(cmd, after) == cmd.id >= after

\* if cmd["id"] > after
Newer(cmd, after) == cmd.id > after

\* the dict appended to result (lines 327-332)
Entry(cmd) == [id |-> cmd.id, action |-> cmd.action, args |-> cmd.args,
               ts |-> cmd.ts]

\* the inner loop over one target's list
Matching(log, after) ==
    LET sel == SelectSeq(log, LAMBDA c : Newer(c, after))
    IN [i \in 1..Len(sel) |-> Entry(sel[i])]

\* for t in [target, "all"]
Collect(store, target, after) ==
    Matching(StoreGet(store, target), after)
        \o Matching(StoreGet(store, "all"), after)

\* result.sort(key=lambda x: x["id"]): a stable sort by id
RECURSIVE InsertById(_, _)
InsertById(e, sorted) ==
    IF sorted = <<>> THEN <<e>>
    ELSE IF e.id < Head(sorted).id THEN <<e>> \o sorted
    ELSE <<Head(sorted)>> \o InsertById(e, Tail(sorted))

RECURSIVE SortById(_)
SortById(seq) ==
    IF seq = <<>> THEN <<>>
    ELSE InsertById(seq[Len(seq)], SortById(SubSeq(seq, 1, Len(seq) - 1)))

\* a request arrives: result = [] and the wait for commands_lock
GetBegin(caller, target, after) ==
    /\ gpc = "idle"
    /\ gpc' = "lock"
    /\ g_caller' = caller
    /\ g_target' = target
    /\ g_after' = after
    /\ g_result' = <<>>
    /\ g_seen' = <<>>
    /\ UNCHANGED <<storeVars, tgVars, cleanVars>>

\* the after parameter of a request: 0 (the default) or the id of a command
\* but the last the bounds allow
Cursors == 0..(MaxCmds - 1)

\* the targets the HTTP clients ask for; "eth" is left to the store alone
PollTargets == {"gold", "all"}

\* any HTTP client
HttpPoll(target, after) ==
    /\ GetBegin("http", target, after)
    /\ UNCHANGED lisVars
    /\ UNCHANGED <<clock, alertVars, loopVars>>

\* a lookup by indexing: the defaultdict inserts an empty list for a key
\* it does not hold
IndexGet(store, t) ==
    [u \in (DOMAIN store) \cup {t} |-> StoreGet(store, u)]

\* the dict after commands_store.get(t, []): .get inserts nothing
AfterGet(store, t) == store

\* lines 322-332, first turn of the loop: commands_lock is taken and the
\* list of the target scanned
GetLock ==
    /\ gpc = "lock"
    /\ CanAcquire(commands_lock)
    /\ commands_lock' = <<"get">>
    /\ g_seen' = commands_store
    /\ g_result' = Matching(StoreGet(commands_store, g_target), g_after)
    /\ commands_store' = AfterGet(commands_store, g_target)
    /\ gpc' = "scan"
    /\ UNCHANGED <<command_id_counter, tgVars,
                   g_caller, g_target, g_after, cleanVars, lisVars>>
    /\ UNCHANGED <<clock, alertVars, loopVars>>

\* lines 323-332, second turn of the loop: the list of "all" is scanned and
\* the lock released
GetRead ==
    /\ gpc = "scan"
    /\ g_result' = g_result \o Matching(StoreGet(commands_store, "all"), g_after)
    /\ commands_store' = AfterGet(commands_store, "all")
    /\ commands_lock' = Released(commands_lock)
    /\ gpc' = "sort"
    /\ UNCHANGED <<command_id_counter, tgVars,
                   g_caller, g_target, g_after, g_seen, cleanVars, lisVars>>
    /\ UNCHANGED <<clock, alertVars, loopVars>>

\* lines 335-337: sort and return
GetSort ==
    /\ gpc = "sort"
    /\ g_result' = SortById(g_result)
    /\ gpc' = "resp"
    /\ UNCHANGED <<storeVars, tgVars, g_caller, g_target, g_after, g_seen,
                   cleanVars, lisVars>>
    /\ UNCHANGED <<clock, alertVars, loopVars>>

\* the response reaches the HTTP client
HttpReturn ==
    /\ gpc = "resp"
    /\ g_caller = "http"
    /\ gpc' = "idle"
    /\ g_target' = "all"
    /\ g_after' = 0
    /\ g_result' = <<>>
    /\ g_seen' = <<>>
    /\ UNCHANGED <<storeVars, tgVars, g_caller, cleanVars, lisVars>>
    /\ UNCHANGED <<clock, alertVars, loopVars>>

\* ---------------------------------------------------- cleanup_old_commands
\* cutoff = int(time.time()) - 3600
Cutoff(now) == now - RetentionSeconds

\* a retention test that keeps the command created exactly at the cutoff
FreshOrAtCutoff(cmd, cutoff) == cmd.ts >= cutoff

\* c["ts"] > cutoff
Fresh(cmd, cutoff) == cmd.ts > cutoff

\* the comprehension of line 347
Keep(log, cutoff) == SelectSeq(log, LAMBDA c : Fresh(c, cutoff))

\* a turn of the loop that filters the list and leaves it in place
FilterTarget(store, t, cutoff) == [store EXCEPT ![t] = Keep(store[t], cutoff)]

\* lines 347-349: the list of one target is filtered, and deleted when
\* nothing is left of it
EvictTarget(store, t, cutoff) ==
    LET kept == Keep(store[t], cutoff)
    IN IF kept = <<>>
         THEN [u \in (DOMAIN store) \ {t} |-> store[u]]
         ELSE [store EXCEPT ![t] = kept]

\* the commands of a list
Cmds(log) == {log[i] : i \in 1..Len(log)}

\* lines 343-345: the sleep ends, the clock is read, the lock waited for
CleanupWake ==
    /\ cpc = "sleep"
    /\ cpc' = "lock"
    /\ c_now' = Seconds(clock)
    /\ UNCHANGED <<storeVars, tgVars, getVars, c_evicted, c_kept, c_todo,
                   lisVars>>
    /\ UNCHANGED <<clock, alertVars, loopVars>>

\* lines 345-346: commands_lock is taken and the keys are listed
CleanupLock ==
    /\ cpc = "lock"
    /\ CanAcquire(commands_lock)
    /\ commands_lock' = <<"cleanup">>
    /\ c_todo' = DOMAIN commands_store
    /\ cpc' = "pass"
    /\ UNCHANGED <<commands_store, command_id_counter, tgVars, getVars,
                   c_now, c_evicted, c_kept, lisVars>>
    /\ UNCHANGED <<clock, alertVars, loopVars>>

\* lines 346-349: one turn of the loop, on the list of target t
CleanupTarget(t) ==
    /\ cpc = "pass"
    /\ t \in c_todo
    /\ commands_store' = EvictTarget(commands_store, t, Cutoff(c_now))
    /\ c_evicted' = c_evicted \cup
          (Cmds(commands_store[t]) \ AllCmds(commands_store'))
    /\ c_kept' = c_kept \cup
          (Cmds(commands_store[t]) \cap AllCmds(commands_store'))
    /\ c_todo' = c_todo \ {t}
    /\ UNCHANGED <<command_id_counter, commands_lock, tgVars, getVars,
                   cpc, c_now, lisVars>>
    /\ UNCHANGED <<clock, alertVars, loopVars>>

\* line 349, after the last turn: the lock is released
CleanupUnlock ==
    /\ cpc = "pass"
    /\ c_todo = {}
    /\ commands_lock' = Released(commands_lock)
    /\ cpc' = "done"
    /\ UNCHANGED <<commands_store, command_id_counter, tgVars, getVars,
                   c_now, c_evicted, c_kept, c_todo, lisVars>>
    /\ UNCHANGED <<clock, alertVars, loopVars>>

\* line 350, then line 343: the pass is logged and the thread sleeps again
CleanupSleep ==
    /\ cpc = "done"
    /\ cpc' = "sleep"
    /\ c_now' = 0
    /\ c_evicted' = {}
    /\ c_kept' = {}
    /\ UNCHANGED <<storeVars, tgVars, getVars, c_todo, lisVars>>
    /\ UNCHANGED <<clock, alertVars, loopVars>>

\* ---------------------------------------------------- CommandListener.poll
\* max(self.last_id, cmd["id"]) over the commands of a response
RECURSIVE Advance(_, _)
Advance(last, cmds) ==
    IF cmds = <<>> THEN last
    ELSE Advance(IF cmds[1].id > last THEN cmds[1].id ELSE last, Tail(cmds))

\* the ids of the commands the loop of lines 98-107 goes through
Ids(cmds) == [i \in 1..Len(cmds) |-> cmds[i].id]

\* __init__ (lines 53-58): the script names the target it listens for
ListenerCreate(target) ==
    /\ lpc = "none"
    /\ l_target' = target
    /\ last_id' = 0
    /\ l_running' = FALSE
    /\ lpc' = "idle"
    /\ UNCHANGED <<storeVars, tgVars, getVars, cleanVars, l_polls, delivered,
                   l_failed, l_ret>>
    /\ UNCHANGED <<clock, alertVars, loop>>

\* lines 90-94: requests.get(.../commands, target, after=last_id)
ListenerPoll ==
    /\ lpc = "idle"
    /\ l_polls < MaxPolls
    /\ GetBegin("listener", l_target, last_id)
    /\ lpc' = "wait"
    /\ l_polls' = l_polls + 1
    /\ UNCHANGED <<l_target, last_id, delivered, l_failed, l_ret>>
    /\ UNCHANGED <<clock, alertVars, loopVars>>

\* self.handlers: the script registered a handler for "stop" and none for
\* "ping"
Registered == {"stop"}

\* lines 100-107: how the dispatch of one command ends; raising holds the
\* ids whose handler raises
Outcome(cmd, raising) ==
    IF cmd.action \notin Registered THEN "unknown"
    ELSE IF cmd.id \in raising THEN "raised"
    ELSE "handled"

\* a loop that a missing or raising handler ends
RECURSIVE UntilFailure(_, _)
UntilFailure(cmds, raising) ==
    IF cmds = <<>> THEN 0
    ELSE IF Outcome(Head(cmds), raising) # "handled" THEN 1
    ELSE 1 + UntilFailure(Tail(cmds), raising)

\* how many commands of the response the loop of lines 98-107 goes
\* through: the except clause of line 104 and the else of line 106 both
\* go on with the next command
Reached(cmds, raising) == Len(cmds)

\* lines 95-109: the response is read, the cursor advanced and every
\* command of it dispatched; poll returns len(commands)
ListenerReceive(raising) ==
    /\ lpc = "wait"
    /\ gpc = "resp"
    /\ g_caller = "listener"
    /\ raising \subseteq {g_result[i].id : i \in 1..Len(g_result)}
    /\ LET done == SubSeq(g_result, 1, Reached(g_result, raising))
       IN /\ last_id' = Advance(last_id, done)
          /\ delivered' = delivered \o Ids(done)
          /\ l_failed' = l_failed \cup
                {[id |-> done[i].id, why |-> Outcome(done[i], raising)] :
                    i \in {k \in 1..Len(done) :
                              Outcome(done[k], raising) # "handled"}}
          /\ l_ret' = IF Len(done) = Len(g_result) THEN Len(g_result) ELSE 0
    /\ lpc' = "idle"
    /\ gpc' = "idle"
    /\ g_caller' = "http"
    /\ g_target' = "all"
    /\ g_after' = 0
    /\ g_result' = <<>>
    /\ g_seen' = <<>>
    /\ UNCHANGED <<storeVars, tgVars, cleanVars, l_target, l_polls>>
    /\ UNCHANGED <<clock, alertVars, loopVars>>

\* lines 111-116: the request fails; poll returns 0
ListenerFail ==
    /\ lpc = "idle"
    /\ l_polls < MaxPolls
    /\ l_polls' = l_polls + 1
    /\ l_ret' = 0
    /\ UNCHANGED <<storeVars, tgVars, getVars, cleanVars,
                   l_target, last_id, lpc, delivered, l_failed>>
    /\ UNCHANGED <<clock, alertVars, loopVars>>

\* ------------------------------------------- CommandListener.start / stop
\* line 120: if self._running: return
MaySpawn(running) == ~running

\* lines 118-131: start() returns at once when _running is set; otherwise
\* it sets _running and starts a thread at the top of loop()
ListenerStart ==
    /\ lpc # "none"
    /\ \E k \in Loops : loop[k] = "none"
    /\ IF MaySpawn(l_running)
         THEN /\ l_running' = TRUE
              /\ LET k == CHOOSE j \in Loops :
                              loop[j] = "none"
                              /\ \A i \in Loops : i < j => loop[i] # "none"
                 IN loop' = [loop EXCEPT ![k] = "check"]
         ELSE UNCHANGED <<l_running, loop>>
    /\ UNCHANGED <<clock, alertVars, storeVars, tgVars, getVars, cleanVars,
                   lisVars>>

\* lines 133-135
ListenerStop ==
    /\ lpc # "none"
    /\ l_running' = FALSE
    /\ UNCHANGED <<clock, alertVars, storeVars, tgVars, getVars, cleanVars,
                   lisVars, loop>>

\* line 127: while self._running
LoopCheck(k) ==
    /\ loop[k] = "check"
    /\ loop' = [loop EXCEPT ![k] = IF l_running THEN "poll" ELSE "ended"]
    /\ UNCHANGED <<clock, alertVars, storeVars, tgVars, getVars, cleanVars,
                   lisVars, l_running>>

\* line 128: self.poll() with after = last_id, when the server cannot be
\* reached or holds nothing above the cursor: poll returns 0 (lines 109,
\* 113) and last_id stays
LoopPoll(k) ==
    /\ loop[k] = "poll"
    /\ loop' = [loop EXCEPT ![k] = "sleep"]
    /\ l_ret' = 0
    /\ UNCHANGED <<clock, alertVars, storeVars, tgVars, getVars, cleanVars,
                   l_target, last_id, lpc, l_polls, delivered, l_failed,
                   l_running>>

\* line 129: time.sleep(self.poll_interval) ends
LoopSleep(k) ==
    /\ loop[k] = "sleep"
    /\ loop' = [loop EXCEPT ![k] = "check"]
    /\ UNCHANGED <<clock, alertVars, storeVars, tgVars, getVars, cleanVars,
                   lisVars, l_running>>

\* the chat command handler, shared by the two command specifications
TgNext ==
    \/ \E h \in Handlers, parts \in Texts : TgReceive(h, parts)
    \/ \E h \in Handlers : TgUsage(h)
    \/ \E h \in Handlers : TgAlloc(h)
    \/ \E h \in Handlers : TgInsert(h)
    \/ \E h \in Handlers : TgReply(h)

CmdNext ==
    \/ Tick
    \/ TgNext
    \/ \E target \in PollTargets, after \in Cursors : HttpPoll(target, after)
    \/ GetLock
    \/ GetRead
    \/ GetSort
    \/ HttpReturn
    \/ CleanupWake
    \/ CleanupLock
    \/ \E t \in Targets : CleanupTarget(t)
    \/ CleanupUnlock
    \/ CleanupSleep

ListenerNext ==
    \/ TgNext
    \/ \E target \in {"gold", "all"} : ListenerCreate(target)
    \/ ListenerPoll
    \/ GetLock
    \/ GetRead
    \/ GetSort
    \/ \E raising \in SUBSET (1..MaxCmds) : ListenerReceive(raising)
    \/ ListenerFail

LoopNext ==
    \/ \E target \in {"gold", "all"} : ListenerCreate(target)
    \/ ListenerStart
    \/ ListenerStop
    \/ \E k \in Loops : LoopCheck(k)
    \/ \E k \in Loops : LoopPoll(k)
    \/ \E k \in Loops : LoopSleep(k)

\* /notify and its timer tasks, shared by the two alert specifications
NotifyNext ==
    \/ \E key \in {"secret", "none"} : LoadEnv(key)
    \/ \E r \in Reqs, key \in Keys, prio \in Priorities :
          NotifyBegin(r, key, prio)
    \/ \E r \in Reqs, ok \in BOOLEAN : NotifySend(r, ok)
    \/ \E r \in Reqs : NotifyRegister(r)
    \/ \E r \in Reqs : TimerCheck(r)
    \/ \E r \in Reqs, sent \in BOOLEAN, placed \in BOOLEAN :
          TimerEscalate(r, sent, placed)

AlertNext ==
    \/ Tick
    \/ NotifyNext
    \/ \E id \in 0..MaxClock : AckBegin(id)
    \/ AckAnswerFail
    \/ AckCheck
    \/ \E ok \in BOOLEAN : AckEdit(ok)
    \/ \E ok \in BOOLEAN : AckReply(ok)
    \/ \E ok \in BOOLEAN : AckExpired(ok)

CallNext ==
    \/ Tick
    \/ NotifyNext
    \/ \E key \in Keys, success \in BOOLEAN : DirectCall(key, success)


vars == <<clock, alertVars, cmdVars>>

Init == AlertInit /\ CmdInit

Next == AlertNext \/ CallNext \/ CmdNext \/ ListenerNext \/ LoopNext

\* the whole server with its clients
Spec == Init /\ [][Next]_vars

\* the alert registry and its timers, the command system at rest
SpecAlert == Init /\ [][AlertNext]_vars

\* /notify with its timers, and /call
SpecCall == Init /\ [][CallNext]_vars

\* the command store with its HTTP clients and the cleanup thread
SpecCmd == Init /\ [][CmdNext]_vars

\* the command store polled by a CommandListener
SpecListener == Init /\ [][ListenerNext]_vars

\* the polling threads of a CommandListener, the server holding no command
SpecLoop == Init /\ [][LoopNext]_vars

\* ================================================================ claims

\* C1: for every critical alert, the confirmation reply and the placed phone
\* call never both occur, whatever the interleaving of handle_callback and
\* delayed_call_check.
C1_AtMostOneEffect ==
    \A r \in Reqs :
        ~(r \in acked /\ \E c \in calls : c.task = r /\ c.placed)

\* C2: every pending alert is removed from the registry: once the timer
\* task of the alert has ended and no callback is being handled, the entry
\* of the alert is gone, also when a chat call of the handlers failed.
C2_EntryRemoved ==
    \A r \in Reqs :
        (tpc[r] = "done" /\ apc = "idle")
            => ~(n_id[r] \in DOMAIN pending_alerts
                 /\ pending_alerts[n_id[r]].message = AlertMessage(r))

\* C3: the ids assigned to stored commands are strictly increasing in
\* creation order and never assigned twice, across all targets.
C3_IdsIncreasing ==
    /\ \A i, j \in 1..Len(issued) : i < j => issued[i] < issued[j]
    /\ \A c, d \in AllCmds(commands_store) : c.id = d.id => c = d
    /\ \A t \in DOMAIN commands_store :
          \A i, j \in 1..Len(commands_store[t]) :
              i < j => commands_store[t][i].id < commands_store[t][j].id

C3_Witness ==
    /\ Len(issued) >= 3
    /\ \E c, d \in AllCmds(commands_store) : c.target # d.target

\* C4: GET /commands returns exactly the stored commands of the requested
\* target and of "all" whose id is above the cursor, none with id <= after,
\* none of another target, in ascending order of id.
C4_PollResult ==
    gpc = "resp" =>
        LET stored == AllCmds(g_seen)
            wanted == {c \in stored : c.target \in {g_target, "all"}
                                      /\ c.id > g_after}
        IN /\ \A i \in 1..Len(g_result) : g_result[i].id > g_after
           /\ \A c \in wanted :
                 \E i \in 1..Len(g_result) : g_result[i] = Entry(c)
           /\ \A i \in 1..Len(g_result) :
                 /\ \E c \in wanted : g_result[i] = Entry(c)
                 /\ ~\E c \in stored : /\ c.id = g_result[i].id
                                       /\ c.target \notin {g_target, "all"}
           /\ \A i, j \in 1..Len(g_result) :
                 i < j => g_result[i].id <= g_result[j].id

\* a response that had to be sorted, with a command of another target and a
\* command at or below the cursor left out
C4_Witness ==
    /\ gpc = "resp"
    /\ g_target = "gold"
    /\ Len(g_result) >= 2
    /\ \E c, d \in AllCmds(g_seen) :
          c.target = "gold" /\ d.target = "all" /\ d.id < c.id
          /\ d.id > g_after
    /\ \E c \in AllCmds(g_seen) :
          c.target = "eth" \/ c.id <= g_after

\* C5: after an acknowledge of an alert id has been handled, every later
\* acknowledge of that id reports "already handled or expired".
C5_AckIdempotent ==
    \A i, j \in 1..Len(ack_log) :
        (/\ i < j
         /\ ack_log[i].id = ack_log[j].id
         /\ ack_log[i].outcome \in {"confirmed", "confirm_failed"})
            => ack_log[j].outcome = "unknown"

\* C6: an eviction pass that read the time now removes every command
\* created at or before now - R and no command created after now - R.
C6_Eviction ==
    cpc = "done" =>
        /\ \A c \in c_evicted : c.ts <= c_now - RetentionSeconds
        /\ \A c \in c_kept : c.ts > c_now - RetentionSeconds
        /\ \A c \in AllCmds(commands_store) : c.ts > c_now - RetentionSeconds

\* a pass that removed a command created at now - R - 1 and kept one
\* created at now - R + 1, of different targets
C6_Witness ==
    /\ cpc = "done"
    /\ \E c \in c_evicted, d \in c_kept :
          /\ c.ts = c_now - RetentionSeconds - 1
          /\ d.ts = c_now - RetentionSeconds + 1
          /\ c.target # d.target
          /\ d \in AllCmds(commands_store)

\* C7: no two critical alerts ever share an alert id.
C7_FreshAlertIds ==
    \A r, q \in Reqs :
        (r # q /\ tpc[r] # "none" /\ tpc[q] # "none") => n_id[r] # n_id[q]

\* C8: an alert that is escalated gets exactly one call, and an acknowledge
\* that arrives after the timer callback started escalating is answered
\* "already handled or expired", not confirmed.
C8_EscalatedOnce ==
    /\ \A r \in Reqs :
          Cardinality({c \in calls : c.task = r}) <= 1
    /\ a_late => apc \notin {"edit", "reply"}

\* C9: a timer callback that makes its check after the acknowledge of its
\* alert was handled (confirmed set, entry removed) does nothing.
C9_TimerNoOp ==
    [][\A r \in Reqs :
          (tpc[r] = "sleep" /\ r \in acked /\ tpc'[r] # "sleep")
              => (tpc'[r] = "done"
                  /\ UNCHANGED <<pending_alerts, calls, chat>>)]_vars

\* C10: a CommandListener never dispatches a command id twice, within one
\* response or across polls, whatever its target.
C10_AtMostOnce ==
    \A i, j \in 1..Len(delivered) : i < j => delivered[i] # delivered[j]

\* C12: when the call of an escalation cannot be placed, the alert is
\* removed all the same, the call is made once only, and the timer task
\* ends normally.
C12_FailedCall ==
    \A c \in calls :
        ~c.placed =>
            /\ tpc[c.task] = "done"
            /\ ~HasEntry(c.task)
            /\ \A d \in calls : d.task = c.task => d = c

C12_Witness ==
    \E c \in calls : ~c.placed /\ tpc[c.task] = "done" /\ c.task \in posted

\* C13: a /notify or /call request without the key, or with a key other
\* than the configured one, is answered 401 and creates no alert, starts
\* no timer, sends no message and places no call.
C13_Rejected ==
    /\ \A r \in Reqs :
          (npc[r] # "idle" /\ n_key[r] \in {"none", "wrong"})
              => /\ npc[r] = "401"
                 /\ tpc[r] = "none"
                 /\ r \notin posted
                 /\ ~HasEntry(r)
    /\ (d_status # "none" /\ d_key \in {"none", "wrong"})
          => (d_status = "401" /\ d_placed = "none")

\* C15: /notify records an alert, starts a timer and returns an alert_id
\* exactly when the priority is critical and the message was sent; any
\* other request records nothing, starts no timer and returns no alert_id.
C15_CriticalOnly ==
    \A r \in Reqs :
        /\ (tpc[r] # "none") <=> (npc[r] = "ok+id")
        /\ HasEntry(r) => tpc[r] # "none"
        /\ (tpc[r] # "none") => (n_prio[r] = "critical" /\ r \in posted)
        /\ (n_prio[r] = "critical" /\ r \in posted /\ npc[r] # "sent")
              => tpc[r] # "none"
        /\ (npc[r] \in {"ok", "500", "401"})
              => (tpc[r] = "none" /\ ~HasEntry(r))

C15_Witness ==
    \E r, q \in Reqs :
        /\ npc[r] = "ok+id" /\ HasEntry(r) /\ tpc[r] = "sleep"
        /\ npc[q] = "ok" /\ n_prio[q] = "normal" /\ q \in posted

\* C16: when sending the chat message fails, /notify answers 500 and, for
\* a critical request, no alert is recorded and no timer started.
C16_SendFailure ==
    \A r \in Reqs :
        /\ (npc[r] \notin {"idle", "send", "401"} /\ r \notin posted)
              => npc[r] = "500"
        /\ npc[r] = "500"
              => (r \notin posted /\ tpc[r] = "none" /\ ~HasEntry(r))

C16_Witness ==
    \E r \in Reqs :
        npc[r] = "500" /\ n_prio[r] = "critical" /\ DOMAIN pending_alerts # {}

\* C17: /call leaves pending_alerts and the timer tasks as they are,
\* whether the call is placed or not, and answers 500 when it is not.
C17_DirectCall ==
    /\ [](d_status = "500" <=> d_placed = "failed")
    /\ [](d_status = "ok" <=> d_placed = "placed")
    /\ [][(callVars' # callVars)
             => UNCHANGED <<pending_alerts, tpc, t_due>>]_vars

C17_Witness ==
    /\ d_status = "500"
    /\ d_placed = "failed"
    /\ \E r \in Reqs : HasEntry(r) /\ tpc[r] = "sleep"

\* C11: GET /commands changes nothing of the command store: no step of a
\* poll, for a stored target, a target never seen or "all", changes the set
\* of target keys, a target's log or the id counter.
C11_PureRead ==
    [][(getVars' # getVars)
          => UNCHANGED <<commands_store, command_id_counter>>]_vars

\* a poll answered for a target the store never held, with a cursor
C11_Witness ==
    /\ gpc = "resp"
    /\ g_target \notin DOMAIN g_seen
    /\ "all" \notin DOMAIN g_seen
    /\ g_seen # <<>>
    /\ g_after > 0
    /\ commands_store = g_seen

\* C14: a chat command whose target or action is missing gets the usage
\* reply; it is never stored, and handling it changes neither a log nor
\* the id counter.
C14_UsageOnly ==
    /\ [](\A h \in Handlers :
             (/\ hpc[h] \in {"usage", "lock", "insert"}
              /\ (h_cmd[h].target = "" \/ h_cmd[h].action = ""))
                 => hpc[h] = "usage")
    /\ [](\A c \in AllCmds(commands_store) : c.target # "" /\ c.action # "")
    /\ [][\A h \in Handlers :
             (hpc'[h] # hpc[h] /\ "usage" \in {hpc[h], hpc'[h]})
                 => UNCHANGED <<commands_store, command_id_counter>>]_vars

C14_Witness ==
    \E h \in Handlers :
        /\ hpc[h] = "usage"
        /\ h_cmd[h].target = ""
        /\ h_cmd[h].action # ""
        /\ command_id_counter > 0
        /\ commands_store # <<>>

\* C18 as stated: a chat command with a non-empty target and an empty
\* action goes on to be stored.
C18_StoredAsIs ==
    \A h \in Handlers :
        (/\ hpc[h] \in {"usage", "lock", "insert"}
         /\ h_cmd[h].target # ""
         /\ h_cmd[h].action = "")
            => hpc[h] \in {"lock", "insert"}

\* C18: a chat command with a non-empty target and an empty action gets the
\* usage reply; no stored command and no command of a poll response has an
\* empty action.
C18_EmptyActionRejected ==
    /\ \A h \in Handlers :
          (/\ hpc[h] \in {"usage", "lock", "insert"}
           /\ h_cmd[h].target # ""
           /\ h_cmd[h].action = "")
              => hpc[h] = "usage"
    /\ \A c \in AllCmds(commands_store) : c.action # ""
    /\ \A i \in 1..Len(g_result) : g_result[i].action # ""

C18_Witness ==
    \E h \in Handlers :
        /\ hpc[h] = "usage"
        /\ h_cmd[h].target = "gold"
        /\ h_cmd[h].action = ""
        /\ \E c \in AllCmds(commands_store) : c.target = "gold"

\* C19: the append of a command, the scan of a poll and the eviction pass
\* never overlap: while a poll scans, the store and the counter stay as the
\* poll found them, and what the poll returns is read from one state of the
\* store, taken when no append and no pass was under way.
C19_Exclusive ==
    /\ [](LET appending == \E h \in Handlers : hpc[h] = "insert"
              scanning == gpc = "scan"
              evicting == cpc = "pass"
          IN /\ ~(appending /\ scanning)
             /\ ~(appending /\ evicting)
             /\ ~(scanning /\ evicting))
    /\ [](gpc = "sort" => g_result = Collect(g_seen, g_target, g_after))
    /\ [][(gpc = "scan" \/ gpc' = "scan")
             => UNCHANGED <<commands_store, command_id_counter>>]_vars

\* a poll and a chat command wait while a pass has evicted one log and has
\* another still to go through
C19_Witness ==
    /\ cpc = "pass"
    /\ c_evicted # {}
    /\ c_todo # {}
    /\ gpc = "lock"
    /\ \E h \in Handlers : hpc[h] = "lock"

\* C20 as stated: whenever handle_tg_command waits on a chat reply,
\* commands_lock is free.
C20_LockFree ==
    \A h \in Handlers :
        hpc[h] \in {"usage", "reply"} => commands_lock = <<"free">>

\* C20: handle_tg_command never holds commands_lock while it waits on a
\* chat reply; it holds the lock between taking an id and the append only.
C20_NotHeldByHandler ==
    \A h \in Handlers :
        /\ hpc[h] \in {"usage", "reply"} => commands_lock # <<"tg", h>>
        /\ (commands_lock = <<"tg", h>>) <=> (hpc[h] = "insert")

\* a poll scans the store while the handler waits on its confirmation
C20_Witness ==
    \E h \in Handlers :
        /\ hpc[h] = "reply"
        /\ commands_lock = <<"get">>
        /\ gpc = "scan"

\* C21: no target key of the command store maps to an empty log, whatever
\* appends, polls and eviction passes were made.
C21_NoEmptyLog ==
    \A t \in DOMAIN commands_store : commands_store[t] # <<>>

\* a pass emptied the log of one target and deleted its key, another target
\* is still stored, and a poll asked for a target the store does not hold
C21_Witness ==
    /\ cpc = "done"
    /\ \E c \in c_evicted : c.target \notin DOMAIN commands_store
    /\ commands_store # <<>>
    /\ gpc = "resp"
    /\ g_target \notin DOMAIN commands_store

\* C23: a GET /commands response holds each command id once, in strictly
\* ascending order, for every target asked for, "all" included.
C23_NoDuplicates ==
    gpc = "resp" =>
        \A i, j \in 1..Len(g_result) : i < j => g_result[i].id < g_result[j].id

\* C22: when a timer callback escalates the alert with id X, the message
\* it passes to make_phone_call is the message of the registry entry held
\* under X at that moment.
C22_EntryMessage ==
    [][\A r \in Reqs :
          (tpc[r] = "warn" /\ tpc'[r] = "done")
              => \A c \in calls' \ calls :
                    /\ n_id[r] \in DOMAIN pending_alerts
                    /\ pending_alerts[n_id[r]].message = c.message]_vars

\* C26: while the button of a critical alert is in the chat and the alert
\* is neither acknowledged nor through its timer, the registry holds the
\* entry of the alert.
C26_ButtonRegistered ==
    \A r \in Reqs :
        (/\ IsCritical(n_prio[r])
         /\ r \in posted
         /\ r \notin acked
         /\ tpc[r] # "done")
            => HasEntry(r)

\* C24: a command that is stored after a poll read the store has an id
\* above every id of that poll's response, so a listener that moves its
\* cursor to the highest id it saw has been handed every stored command of
\* its target or of "all" at or below the cursor.
C24_NoSkip ==
    /\ (gpc \in {"sort", "resp"}) =>
          \A i \in 1..Len(g_result) :
              \A c \in AllCmds(commands_store) :
                  (c.target \in {g_target, "all"} /\ c.id < g_result[i].id)
                      => c \in AllCmds(g_seen)
    /\ \A h \in Handlers :
          hpc[h] = "insert" =>
              /\ \A c \in AllCmds(commands_store) : c.id < h_cmd[h].id
              /\ \A i \in 1..Len(g_result) : g_result[i].id < h_cmd[h].id
              /\ last_id < h_cmd[h].id
    /\ lpc = "idle" =>
          \A c \in AllCmds(commands_store) :
              (c.target \in {l_target, "all"} /\ c.id <= last_id)
                  => \E i \in 1..Len(delivered) : delivered[i] = c.id

\* a command was stored between two polls of the listener, which was handed
\* the earlier command by the first poll and the later one by the second
C24_Witness ==
    /\ lpc = "idle"
    /\ l_polls = 2
    /\ l_ret = 1
    /\ last_id >= 2
    /\ \E i, j \in 1..Len(delivered) : i < j /\ delivered[i] < delivered[j]
    /\ \E h \in Handlers : hpc[h] = "insert"

C25_OneLoop ==
    \A j, k \in Loops : (loop[j] = "poll" /\ loop[k] = "poll") => j = k

====
